---- MODULE Spec2Model ----
(***************************************************************************)
(* GNSS geolocation middleware (gnss_middleware.c): the scan & send        *)
(* sequence controller, seen as a state machine.                           *)
(*                                                                         *)
(* The application context calls the public functions; the radio planner   *)
(* calls gnss_mw_scan_rp_task_launch / gnss_mw_scan_rp_task_done and the   *)
(* modem calls gnss_mw_tx_done_callback from interrupt context.            *)
(* The C functions are operators from a record of the file's static        *)
(* variables (plus the collaborators' state) to the record after the call. *)
(***************************************************************************)
EXTENDS Integers, Sequences, FiniteSets, TLC

\* ---------------------------------------------------------------- bounds
\* start() is offered while the group token is below this value
MaxToken == 2
\* launch notifications delivered within one sequence
MaxLaunches == 3

\* ------------------------------------------------------------- constants
GNSS_MW_MODE_STATIC == 0
GNSS_MW_MODE_MOBILE == 1
\* __GNSS_MW_MODE__SIZE
GNSS_MW_MODE_SIZE == 2
SOLVER_AIDING_POSITION_SIZE == 4
\* minimum number of satellites for a single autonomous scan to be valid
GNSS_SCAN_SINGLE_NAV_MIN_SV == 6
\* the token is one byte wide
TokenModulus == 256

modes ==
    [m \in 0..(GNSS_MW_MODE_SIZE - 1) |->
        IF m = GNSS_MW_MODE_STATIC
        THEN [scan_group_delay |-> 15, scan_group_size |-> 4, sv_min |-> 3]
        ELSE [scan_group_delay |-> 0, scan_group_size |-> 2, sv_min |-> 5]]

\* gnss_mw_event_type_t
EventTypes ==
    {"SCAN_DONE", "TERMINATED", "SCAN_CANCELLED", "ERROR_NO_TIME",
     "ERROR_ALMANAC_UPDATE", "ERROR_NO_AIDING_POSITION", "ERROR_UNKNOWN"}

TerminalEvents == EventTypes \ {"SCAN_DONE"}

\* gnss_mw_internal_error_t
InternalErrors == {"NONE", "SCAN_FAILED", "NO_TIME", "UNKNOWN"}

\* ---------------------------------------------------------------- inputs
\* mode arguments given to start(): the two modes and one out of range
ModeArgs == {GNSS_MW_MODE_STATIC, GNSS_MW_MODE_MOBILE, GNSS_MW_MODE_SIZE}
\* start_delay argument of start(), in seconds
StartDelays == {5}
\* (latitude, longitude) pairs given to set_user_aiding_position()
UserPositions == {[latitude |-> 48, longitude |-> 2]}
\* two positions that differ in latitude and in longitude
UserPositionsTwo ==
    {[latitude |-> 48, longitude |-> 2], [latitude |-> 51, longitude |-> 7]}
\* payloads given to set_solver_aiding_position()
SolverPayloads == {7}
\* size arguments given to set_solver_aiding_position()
SolverSizes == {SOLVER_AIDING_POSITION_SIZE, SOLVER_AIDING_POSITION_SIZE - 1}
\* number of satellites detected by one scan
SvChoices == {2, 6}
\* outcomes of smtc_modem_get_time()
TimeRcs == {"OK", "NO_TIME", "FAIL"}
\* completion status given by the radio planner
IrqStatuses == {"ABORTED", "GNSS_SCAN_DONE", "OTHER"}
\* outcomes of smtc_gnss_get_results()
GetResultsRcs ==
    {"NO_ERROR", "ERROR_ALMANAC", "ERROR_AIDING_POS", "ERROR_NO_TIME", "ERROR_UNKNOWN"}

NoPosition == [latitude |-> 0, longitude |-> 0]

VARIABLES
    \* --- static variables of gnss_middleware.c
    modem_radio_ctx,                        \* TRUE when not NULL
    gnss_scan_group_queue,
    aiding_position_received,
    user_aiding_position_update_received,
    user_aiding_position_update,
    solver_aiding_position_update_received,
    solver_aiding_position_update,
    current_mode_index,
    pending_error,
    pending_events,
    scan_aggregate,
    send_bypass,
    task_cancelled_by_user,
    task_running,
    lr11xx_scan_context,
    \* --- collaborators
    rp_task,        \* radio planner slot RP_TASK_GNSS: "none", "queued", "running"
    rp_abort,       \* an abort of the slot's task has been requested
    rp_delay_s,     \* delay asked with the last task queued
    lr11xx,         \* the GNSS driver: assistance data written, scan in progress
    radio_sleep,    \* the radio is in its low-power state
    tx_pending,     \* an extended uplink awaits its tx-done callback
    \* --- execution contexts and observation
    app_pc,         \* position of the application context
    app_arg,        \* argument of the call the application context is in
    seq_active,     \* a start() was accepted and no terminal event sent since
    nb_launch,      \* launch notifications of the current sequence
    emitted,        \* events sent in the current sequence, in order
    nb_tx_req,      \* uplink requests made in the current sequence
    nb_tx_done,     \* uplink requests accepted and completed in the sequence
    token_at_start, \* token when the current sequence was accepted
    seq_bump,       \* the group filled while valid and not aggregated
    launch_log,     \* what the last launch notification did, in order
    update_fresh,   \* slots whose setter was called since their last write to the driver
    stale_applied,  \* a slot was written to the driver again with no setter call between
    cancel_called   \* a cancel() passed its check since the last accepted start()

vars ==
    <<modem_radio_ctx, gnss_scan_group_queue, aiding_position_received,
      user_aiding_position_update_received, user_aiding_position_update,
      solver_aiding_position_update_received, solver_aiding_position_update,
      current_mode_index, pending_error, pending_events, scan_aggregate,
      send_bypass, task_cancelled_by_user, task_running, lr11xx_scan_context,
      rp_task, rp_abort, rp_delay_s, lr11xx, radio_sleep, tx_pending,
      app_pc, app_arg, seq_active, nb_launch, emitted, nb_tx_req,
      nb_tx_done, token_at_start, seq_bump, launch_log, update_fresh,
      stale_applied, cancel_called>>

\* the current state as one record
State ==
    [modem_radio_ctx |-> modem_radio_ctx,
     gnss_scan_group_queue |-> gnss_scan_group_queue,
     aiding_position_received |-> aiding_position_received,
     user_aiding_position_update_received |-> user_aiding_position_update_received,
     user_aiding_position_update |-> user_aiding_position_update,
     solver_aiding_position_update_received |-> solver_aiding_position_update_received,
     solver_aiding_position_update |-> solver_aiding_position_update,
     current_mode_index |-> current_mode_index,
     pending_error |-> pending_error,
     pending_events |-> pending_events,
     scan_aggregate |-> scan_aggregate,
     send_bypass |-> send_bypass,
     task_cancelled_by_user |-> task_cancelled_by_user,
     task_running |-> task_running,
     lr11xx_scan_context |-> lr11xx_scan_context,
     rp_task |-> rp_task,
     rp_abort |-> rp_abort,
     rp_delay_s |-> rp_delay_s,
     lr11xx |-> lr11xx,
     radio_sleep |-> radio_sleep,
     tx_pending |-> tx_pending,
     app_pc |-> app_pc,
     app_arg |-> app_arg,
     seq_active |-> seq_active,
     nb_launch |-> nb_launch,
     emitted |-> emitted,
     nb_tx_req |-> nb_tx_req,
     nb_tx_done |-> nb_tx_done,
     token_at_start |-> token_at_start,
     seq_bump |-> seq_bump,
     launch_log |-> launch_log,
     update_fresh |-> update_fresh,
     stale_applied |-> stale_applied,
     cancel_called |-> cancel_called]

\* the next state is the record s
Commit(s) ==
    /\ modem_radio_ctx' = s.modem_radio_ctx
    /\ gnss_scan_group_queue' = s.gnss_scan_group_queue
    /\ aiding_position_received' = s.aiding_position_received
    /\ user_aiding_position_update_received' = s.user_aiding_position_update_received
    /\ user_aiding_position_update' = s.user_aiding_position_update
    /\ solver_aiding_position_update_received' = s.solver_aiding_position_update_received
    /\ solver_aiding_position_update' = s.solver_aiding_position_update
    /\ current_mode_index' = s.current_mode_index
    /\ pending_error' = s.pending_error
    /\ pending_events' = s.pending_events
    /\ scan_aggregate' = s.scan_aggregate
    /\ send_bypass' = s.send_bypass
    /\ task_cancelled_by_user' = s.task_cancelled_by_user
    /\ task_running' = s.task_running
    /\ lr11xx_scan_context' = s.lr11xx_scan_context
    /\ rp_task' = s.rp_task
    /\ rp_abort' = s.rp_abort
    /\ rp_delay_s' = s.rp_delay_s
    /\ lr11xx' = s.lr11xx
    /\ radio_sleep' = s.radio_sleep
    /\ tx_pending' = s.tx_pending
    /\ app_pc' = s.app_pc
    /\ app_arg' = s.app_arg
    /\ seq_active' = s.seq_active
    /\ nb_launch' = s.nb_launch
    /\ emitted' = s.emitted
    /\ nb_tx_req' = s.nb_tx_req
    /\ nb_tx_done' = s.nb_tx_done
    /\ token_at_start' = s.token_at_start
    /\ seq_bump' = s.seq_bump
    /\ launch_log' = s.launch_log
    /\ update_fresh' = s.update_fresh
    /\ stale_applied' = s.stale_applied
    /\ cancel_called' = s.cancel_called

\* what a public function returns: the state it leaves and its return code
Ret(s, rc) == [s |-> s, rc |-> rc]

Range(f) == {f[i] : i \in DOMAIN f}

\* ------------------------------------------------- scan group queue
\* (gnss_queue.c) a bounded ordered group of scan results with its token

gnss_scan_group_queue_reset_token(q) == [q EXCEPT !.token = 0]

gnss_scan_group_queue_increment_token(q) ==
    [q EXCEPT !.token = (q.token + 1) % TokenModulus]

gnss_scan_group_queue_new(q, scan_group_size, sv_min) ==
    [q EXCEPT !.scan_group_size = scan_group_size,
              !.scan_group_sv_min = sv_min,
              !.scans = <<>>,
              !.nb_scans_sent = 0,
              !.power_consumption_uah = 0]

\* (variant) the group is full once it holds more than its capacity
gnss_scan_group_queue_is_full_OneMore(q) == Len(q.scans) > q.scan_group_size

gnss_scan_group_queue_is_full(q) == Len(q.scans) >= q.scan_group_size

gnss_scan_group_queue_is_valid(q) ==
    \E i \in 1..Len(q.scans) : q.scans[i].detected_svs >= q.scan_group_sv_min

gnss_scan_group_queue_push(q, scan) ==
    IF Len(q.scans) < q.scan_group_size
    THEN [q EXCEPT !.scans = Append(q.scans, scan)]
    ELSE q

\* the oldest result not yet handed out, if any
gnss_scan_group_queue_pop(q) ==
    IF q.nb_scans_sent < Len(q.scans)
    THEN [ok |-> TRUE, q |-> [q EXCEPT !.nb_scans_sent = q.nb_scans_sent + 1]]
    ELSE [ok |-> FALSE, q |-> q]

\* ------------------------------------------------- radio planner
\* the slot of RP_TASK_GNSS holds one task; a running task cannot be replaced

smtc_modem_rp_add_user_radio_access_task(s, rp_ok, delay_s) ==
    IF rp_ok /\ s.rp_task # "running"
    THEN [s |-> [s EXCEPT !.rp_task = "queued", !.rp_abort = FALSE,
                          !.rp_delay_s = delay_s],
          rc |-> "OK"]
    ELSE [s |-> s, rc |-> "FAIL"]

smtc_modem_rp_abort_user_radio_access_task(s) ==
    IF s.rp_task # "none" THEN [s EXCEPT !.rp_abort = TRUE] ELSE s

\* ------------------------------------------------- private functions

gnss_mw_scan_next(s, rp_ok, delay_s) ==
    smtc_modem_rp_add_user_radio_access_task(s, rp_ok, delay_s)

\* (variant) every event ends the sequence, SCAN_DONE as well
EventEndsSequence_Any(event_type) == event_type \in EventTypes

\* (variant) only TERMINATED ends the sequence
EventEndsSequence_OnlyTerminated(event_type) == event_type = "TERMINATED"

\* every event but SCAN_DONE ends the sequence
EventEndsSequence(event_type) == event_type # "SCAN_DONE"

\* (variant) the validity of the group is not looked at
TokenAdvances_IgnoresValidity(s, event_type) ==
    /\ event_type = "SCAN_DONE"
    /\ s.scan_aggregate = FALSE

\* (variant) the test of the aggregate mode is inverted
TokenAdvances_AggregateInverted(s, event_type) ==
    /\ event_type = "SCAN_DONE"
    /\ s.scan_aggregate = TRUE
    /\ gnss_scan_group_queue_is_valid(s.gnss_scan_group_queue)

\* SCAN_DONE of a valid group moves to the next token, unless aggregating
TokenAdvances(s, event_type) ==
    /\ event_type = "SCAN_DONE"
    /\ s.scan_aggregate = FALSE
    /\ gnss_scan_group_queue_is_valid(s.gnss_scan_group_queue)

\* (variant) the event sent replaces the pending ones
gnss_mw_send_event_Overwrites(s, event_type) ==
    LET s1 == IF EventEndsSequence(event_type)
              THEN [s EXCEPT !.task_running = FALSE]
              ELSE s
        s2 == IF TokenAdvances(s1, event_type)
              THEN [s1 EXCEPT !.gnss_scan_group_queue =
                        gnss_scan_group_queue_increment_token(@)]
              ELSE s1
    IN  [s2 EXCEPT !.pending_events = {event_type},
                   !.emitted = Append(@, event_type),
                   !.seq_active = @ /\ event_type \notin TerminalEvents]

gnss_mw_send_event(s, event_type) ==
    LET s1 == IF EventEndsSequence(event_type)
              THEN [s EXCEPT !.task_running = FALSE]
              ELSE s
        s2 == IF TokenAdvances(s1, event_type)
              THEN [s1 EXCEPT !.gnss_scan_group_queue =
                        gnss_scan_group_queue_increment_token(@)]
              ELSE s1
    IN  [s2 EXCEPT !.pending_events = @ \cup {event_type},
                   !.emitted = Append(@, event_type),
                   !.seq_active = @ /\ event_type \notin TerminalEvents]

\* ------------------------------------------------- public functions

gnss_mw_init(s) ==
    [s EXCEPT !.gnss_scan_group_queue =
                  gnss_scan_group_queue_reset_token(
                      [token |-> 0, scan_group_size |-> 0, scan_group_sv_min |-> 0,
                       scans |-> <<>>, nb_scans_sent |-> 0,
                       power_consumption_uah |-> 0]),
              !.modem_radio_ctx = TRUE]

\* (variant) the group always has the capacity and threshold of the mode
NewScanGroup_AlwaysModeSize(s) ==
    [s EXCEPT !.gnss_scan_group_queue =
        gnss_scan_group_queue_new(
            @, modes[s.current_mode_index].scan_group_size,
            modes[s.current_mode_index].sv_min)]

\* the new scan group of gnss_mw_scan_start(): one scan for an autonomous
\* scan, the group of the selected mode for an assisted one
NewScanGroup(s) ==
    IF s.aiding_position_received = FALSE
    THEN [s EXCEPT !.gnss_scan_group_queue =
              gnss_scan_group_queue_new(@, 1, GNSS_SCAN_SINGLE_NAV_MIN_SV)]
    ELSE [s EXCEPT !.gnss_scan_group_queue =
              gnss_scan_group_queue_new(
                  @, modes[s.current_mode_index].scan_group_size,
                  modes[s.current_mode_index].sv_min)]

\* (variant) the start leaves the cancel flag as it finds it
StartSequence_KeepsCancelFlag(s, mode, start_delay, rp_ok) ==
    LET s1 == [s EXCEPT !.current_mode_index = mode,
                        !.pending_error = "NONE",
                        !.pending_events = {}]
        s2 == NewScanGroup(s1)
        r  == gnss_mw_scan_next(s2, rp_ok, start_delay)
    IN  IF r.rc # "OK"
        THEN Ret(r.s, "FAILED")
        ELSE Ret([r.s EXCEPT
                         !.seq_active = TRUE,
                         !.nb_launch = 0,
                         !.emitted = <<>>,
                         !.nb_tx_req = 0,
                         !.nb_tx_done = 0,
                         !.token_at_start = r.s.gnss_scan_group_queue.token,
                         !.seq_bump = FALSE,
                         !.cancel_called = FALSE], "OK")

\* gnss_mw_scan_start() once its three checks are passed
StartSequence(s, mode, start_delay, rp_ok) ==
    LET s1 == [s EXCEPT !.current_mode_index = mode,
                        !.pending_error = "NONE",
                        !.pending_events = {},
                        !.task_cancelled_by_user = FALSE]
        s2 == NewScanGroup(s1)
        r  == gnss_mw_scan_next(s2, rp_ok, start_delay)
    IN  IF r.rc # "OK"
        THEN Ret(r.s, "FAILED")
        ELSE Ret([r.s EXCEPT
                         !.seq_active = TRUE,
                         !.nb_launch = 0,
                         !.emitted = <<>>,
                         !.nb_tx_req = 0,
                         !.nb_tx_done = 0,
                         !.token_at_start = r.s.gnss_scan_group_queue.token,
                         !.seq_bump = FALSE,
                         !.cancel_called = FALSE], "OK")

\* (variant) the running sequence is tested before the mode argument
gnss_mw_scan_start_BusyFirst(s, mode, start_delay, rp_ok) ==
    IF ~s.modem_radio_ctx
    THEN Ret(s, "FAILED")
    ELSE IF s.task_running = TRUE
    THEN Ret(s, "BUSY")
    ELSE IF mode >= GNSS_MW_MODE_SIZE
    THEN Ret(s, "FAILED")
    ELSE StartSequence(s, mode, start_delay, rp_ok)

\* (variant) a running sequence does not make start() fail
gnss_mw_scan_start_NoBusy(s, mode, start_delay, rp_ok) ==
    IF ~s.modem_radio_ctx
    THEN Ret(s, "FAILED")
    ELSE IF mode >= GNSS_MW_MODE_SIZE
    THEN Ret(s, "FAILED")
    ELSE StartSequence(s, mode, start_delay, rp_ok)

gnss_mw_scan_start(s, mode, start_delay, rp_ok) ==
    IF ~s.modem_radio_ctx
    THEN Ret(s, "FAILED")
    ELSE IF mode >= GNSS_MW_MODE_SIZE
    THEN Ret(s, "FAILED")
    ELSE IF s.task_running = TRUE
    THEN Ret(s, "BUSY")
    ELSE StartSequence(s, mode, start_delay, rp_ok)

\* (variant) the cancel flag is tested in place of task_running
gnss_mw_scan_cancel_check_WrongFlag(s) ==
    IF s.task_cancelled_by_user = TRUE
    THEN Ret(s, "BUSY")
    ELSE Ret([s EXCEPT !.app_pc = "cancel", !.cancel_called = TRUE], "-")

\* gnss_mw_scan_cancel() up to its test of task_running; the launch
\* notification runs in interrupt context and can come before the rest
gnss_mw_scan_cancel_check(s) ==
    IF s.task_running = TRUE
    THEN Ret(s, "BUSY")
    ELSE Ret([s EXCEPT !.app_pc = "cancel", !.cancel_called = TRUE], "-")

\* the rest of gnss_mw_scan_cancel(): the flag and the abort request
gnss_mw_scan_cancel_abort(s) ==
    LET s1 == [s EXCEPT !.task_cancelled_by_user = TRUE]
        s2 == smtc_modem_rp_abort_user_radio_access_task(s1)
    IN  Ret([s2 EXCEPT !.app_pc = "idle"], "OK")

\* (variant) the position is refused while a sequence is running
gnss_mw_set_user_aiding_position_BusyWhenRunning(s, position) ==
    IF ~s.modem_radio_ctx
    THEN Ret(s, "FAILED")
    ELSE IF s.task_running = TRUE
    THEN Ret(s, "BUSY")
    ELSE Ret([s EXCEPT !.user_aiding_position_update = position,
                       !.user_aiding_position_update_received = TRUE,
                       !.aiding_position_received = TRUE,
                       !.update_fresh = @ \cup {"user"}], "OK")

gnss_mw_set_user_aiding_position(s, position) ==
    IF ~s.modem_radio_ctx
    THEN Ret(s, "FAILED")
    ELSE Ret([s EXCEPT !.user_aiding_position_update = position,
                       !.user_aiding_position_update_received = TRUE,
                       !.aiding_position_received = TRUE,
                       !.update_fresh = @ \cup {"user"}], "OK")

\* gnss_mw_set_user_aiding_position() write by write, for the launch
\* notification that comes between two of them: the test of modem_radio_ctx
\* and the latitude,
gnss_mw_set_user_aiding_position_latitude(s, position) ==
    IF ~s.modem_radio_ctx
    THEN Ret(s, "FAILED")
    ELSE Ret([s EXCEPT !.user_aiding_position_update.latitude = position.latitude,
                       !.app_pc = "set_user_longitude",
                       !.app_arg = position], "-")

\* then the longitude,
gnss_mw_set_user_aiding_position_longitude(s) ==
    Ret([s EXCEPT !.user_aiding_position_update.longitude = s.app_arg.longitude,
                  !.app_pc = "set_user_received"], "-")

\* then the two flags
gnss_mw_set_user_aiding_position_received(s) ==
    Ret([s EXCEPT !.user_aiding_position_update_received = TRUE,
                  !.aiding_position_received = TRUE,
                  !.update_fresh = @ \cup {"user"},
                  !.app_pc = "idle",
                  !.app_arg = NoPosition], "OK")

gnss_mw_set_solver_aiding_position(s, payload, size) ==
    IF size # SOLVER_AIDING_POSITION_SIZE
    THEN Ret(s, "FAILED")
    ELSE IF ~s.modem_radio_ctx
    THEN Ret(s, "FAILED")
    ELSE Ret([s EXCEPT !.solver_aiding_position_update = payload,
                       !.solver_aiding_position_update_received = TRUE,
                       !.aiding_position_received = TRUE,
                       !.update_fresh = @ \cup {"solver"}], "OK")

\* (variant) any pending event counts
gnss_mw_has_event_AnyPending(events, event) == events # {}

gnss_mw_has_event(events, event) == event \in events

\* what gnss_mw_get_event_data_scan_done() returns
gnss_mw_get_event_data_scan_done(s) ==
    IF gnss_mw_has_event(s.pending_events, "SCAN_DONE")
    THEN [rc |-> "OK",
          is_valid |-> gnss_scan_group_queue_is_valid(s.gnss_scan_group_queue),
          token |-> s.gnss_scan_group_queue.token,
          scans |-> s.gnss_scan_group_queue.scans,
          power_consumption_uah |-> s.gnss_scan_group_queue.power_consumption_uah,
          context |-> s.lr11xx_scan_context]
    ELSE [rc |-> "FAILED"]

\* what gnss_mw_get_event_data_terminated() returns
gnss_mw_get_event_data_terminated(s) ==
    IF gnss_mw_has_event(s.pending_events, "TERMINATED")
    THEN IF s.send_bypass = FALSE
         THEN [rc |-> "OK", nb_scans_sent |-> s.gnss_scan_group_queue.nb_scans_sent]
         ELSE [rc |-> "OK", nb_scans_sent |-> 0]
    ELSE [rc |-> "FAILED"]

gnss_mw_scan_aggregate(s, aggregate) ==
    [s EXCEPT !.scan_aggregate = aggregate]

gnss_mw_send_bypass(s, no_send) ==
    [s EXCEPT !.send_bypass = no_send]

\* (variant) the pending error and the cancel request are reset as well
gnss_mw_clear_pending_events_ResetsError(s) ==
    [s EXCEPT !.pending_events = {},
              !.pending_error = "NONE",
              !.task_cancelled_by_user = FALSE]

gnss_mw_clear_pending_events(s) ==
    [s EXCEPT !.pending_events = {}]

\* ------------------------------------------------- uplink of the results

\* smtc_modem_request_extended_uplink() accepts the frame (frame_ok) or not
gnss_mw_send_frame(s, frame_ok) ==
    IF frame_ok
    THEN [s |-> [s EXCEPT !.tx_pending = TRUE], ret |-> TRUE]
    ELSE [s |-> s, ret |-> FALSE]

\* (variant) the bypass mode is not looked at
gnss_mw_send_results_NoBypass(s, frame_ok) ==
    LET p == gnss_scan_group_queue_pop(s.gnss_scan_group_queue)
    IN  IF p.ok = TRUE
        THEN gnss_mw_send_frame(
                 [s EXCEPT !.gnss_scan_group_queue = p.q,
                           !.nb_tx_req = @ + 1],
                 frame_ok)
        ELSE [s |-> s, ret |-> FALSE]

gnss_mw_send_results(s, frame_ok) ==
    IF s.send_bypass = TRUE
    THEN [s |-> s, ret |-> FALSE]
    ELSE
    LET p == gnss_scan_group_queue_pop(s.gnss_scan_group_queue)
    IN  IF p.ok = TRUE
        THEN gnss_mw_send_frame(
                 [s EXCEPT !.gnss_scan_group_queue = p.q,
                           !.nb_tx_req = @ + 1],
                 frame_ok)
        ELSE [s |-> s, ret |-> FALSE]

\* (variant) TERMINATED is sent after every uplink, results left or not
gnss_mw_tx_done_callback_AlwaysTerminates(s, frame_ok) ==
    LET s0 == [s EXCEPT !.tx_pending = FALSE,
                        !.nb_tx_done = @ + 1]
        r  == gnss_mw_send_results(s0, frame_ok)
    IN  gnss_mw_send_event(r.s, "TERMINATED")

\* the modem reports the uplink sent, then the callback runs
gnss_mw_tx_done_callback(s, frame_ok) ==
    LET s0 == [s EXCEPT !.tx_pending = FALSE,
                        !.nb_tx_done = @ + 1]
        r  == gnss_mw_send_results(s0, frame_ok)
    IN  IF r.ret = FALSE
        THEN gnss_mw_send_event(r.s, "TERMINATED")
        ELSE r.s

\* ------------------------------------------------- radio planner callbacks

\* (variant) the pending flag is left set after the write
ApplyUserUpdate_KeepsFlag(s, user_ok) ==
    IF s.user_aiding_position_update_received = TRUE
    THEN IF user_ok
         THEN [s EXCEPT
                 !.lr11xx.aiding_position = s.user_aiding_position_update,
                 !.launch_log = Append(@, "user"),
                 !.stale_applied = @ \/ ("user" \notin s.update_fresh),
                 !.update_fresh = @ \ {"user"}]
         ELSE [s EXCEPT !.launch_log = Append(@, "user_rejected")]
    ELSE s

\* the user's assistance position, written to the driver when pending
ApplyUserUpdate(s, user_ok) ==
    IF s.user_aiding_position_update_received = TRUE
    THEN IF user_ok
         THEN [s EXCEPT
                 !.lr11xx.aiding_position = s.user_aiding_position_update,
                 !.user_aiding_position_update_received = FALSE,
                 !.launch_log = Append(@, "user"),
                 !.stale_applied = @ \/ ("user" \notin s.update_fresh),
                 !.update_fresh = @ \ {"user"}]
         ELSE [s EXCEPT !.launch_log = Append(@, "user_rejected")]
    ELSE s

\* (variant) the pending flag is cleared when the driver rejects the push too
ApplySolverUpdate_ClearsOnReject(s, solver_ok) ==
    IF s.solver_aiding_position_update_received = TRUE
    THEN IF solver_ok
         THEN [s EXCEPT
                 !.lr11xx.solver_msg = s.solver_aiding_position_update,
                 !.solver_aiding_position_update_received = FALSE,
                 !.launch_log = Append(@, "solver"),
                 !.stale_applied = @ \/ ("solver" \notin s.update_fresh),
                 !.update_fresh = @ \ {"solver"}]
         ELSE [s EXCEPT !.solver_aiding_position_update_received = FALSE,
                        !.launch_log = Append(@, "solver_rejected")]
    ELSE s

\* the solver's assistance position, pushed to the driver when pending
ApplySolverUpdate(s, solver_ok) ==
    IF s.solver_aiding_position_update_received = TRUE
    THEN IF solver_ok
         THEN [s EXCEPT
                 !.lr11xx.solver_msg = s.solver_aiding_position_update,
                 !.solver_aiding_position_update_received = FALSE,
                 !.launch_log = Append(@, "solver"),
                 !.stale_applied = @ \/ ("solver" \notin s.update_fresh),
                 !.update_fresh = @ \ {"solver"}]
         ELSE [s EXCEPT !.launch_log = Append(@, "solver_rejected")]
    ELSE s

\* the user's update first, then the solver's
LaunchAidingUpdates(s, user_ok, solver_ok) ==
    ApplySolverUpdate(ApplyUserUpdate(s, user_ok), solver_ok)

\* (variant) the context is read at the first launch of a sequence only
gnss_mw_scan_rp_task_launch_FirstContextKept(s, time_rc, user_ok, solver_ok, scan_ok) ==
    LET s0 == [s EXCEPT !.rp_task = "running",
                        !.radio_sleep = FALSE,
                        !.nb_launch = @ + 1,
                        !.launch_log = <<time_rc>>,
                        !.task_running = TRUE]
    IN  IF time_rc = "OK"
        THEN
        LET s1 == LaunchAidingUpdates(s0, user_ok, solver_ok)
            s2 == IF s.nb_launch > 0
                  THEN s1
                  ELSE [s1 EXCEPT !.lr11xx_scan_context =
                      [almanac_crc |-> s1.lr11xx.almanac_crc,
                       aiding_position_latitude |-> s1.lr11xx.aiding_position.latitude,
                       aiding_position_longitude |-> s1.lr11xx.aiding_position.longitude,
                       assisted |-> s1.aiding_position_received,
                       mode |-> s1.current_mode_index]]
        IN  IF scan_ok
            THEN [s2 EXCEPT !.lr11xx.scanning = TRUE,
                            !.lr11xx.assisted = s2.aiding_position_received,
                            !.launch_log = Append(@, "scan")]
            ELSE smtc_modem_rp_abort_user_radio_access_task(
                     [s2 EXCEPT !.pending_error = "SCAN_FAILED",
                                !.launch_log = Append(@, "scan_rejected")])
        ELSE IF time_rc = "NO_TIME"
        THEN smtc_modem_rp_abort_user_radio_access_task(
                 [s0 EXCEPT !.pending_error = "NO_TIME"])
        ELSE smtc_modem_rp_abort_user_radio_access_task(
                 [s0 EXCEPT !.pending_error = "UNKNOWN"])

gnss_mw_scan_rp_task_launch(s, time_rc, user_ok, solver_ok, scan_ok) ==
    LET s0 == [s EXCEPT !.rp_task = "running",
                        !.radio_sleep = FALSE,
                        !.nb_launch = @ + 1,
                        !.launch_log = <<time_rc>>,
                        !.task_running = TRUE]
    IN  IF time_rc = "OK"
        THEN
        LET s1 == LaunchAidingUpdates(s0, user_ok, solver_ok)
            s2 == [s1 EXCEPT !.lr11xx_scan_context =
                      [almanac_crc |-> s1.lr11xx.almanac_crc,
                       aiding_position_latitude |-> s1.lr11xx.aiding_position.latitude,
                       aiding_position_longitude |-> s1.lr11xx.aiding_position.longitude,
                       assisted |-> s1.aiding_position_received,
                       mode |-> s1.current_mode_index]]
        IN  IF scan_ok
            THEN [s2 EXCEPT !.lr11xx.scanning = TRUE,
                            !.lr11xx.assisted = s2.aiding_position_received,
                            !.launch_log = Append(@, "scan")]
            ELSE smtc_modem_rp_abort_user_radio_access_task(
                     [s2 EXCEPT !.pending_error = "SCAN_FAILED",
                                !.launch_log = Append(@, "scan_rejected")])
        ELSE IF time_rc = "NO_TIME"
        THEN smtc_modem_rp_abort_user_radio_access_task(
                 [s0 EXCEPT !.pending_error = "NO_TIME"])
        ELSE smtc_modem_rp_abort_user_radio_access_task(
                 [s0 EXCEPT !.pending_error = "UNKNOWN"])

\* (variant) a user's cancel is handled as an abort by the radio planner
TaskDoneAborted_CancelIgnored(s, rp_ok) ==
    IF s.pending_error = "NONE"
    THEN gnss_mw_scan_next(
             s, rp_ok, modes[s.current_mode_index].scan_group_delay).s
    ELSE IF s.pending_error = "NO_TIME"
    THEN gnss_mw_send_event(s, "ERROR_NO_TIME")
    ELSE gnss_mw_send_event(s, "ERROR_UNKNOWN")

\* (variant) the NO_TIME error is not told apart from the other errors
TaskDoneAborted_NoTimeAsUnknown(s, rp_ok) ==
    IF s.pending_error = "NONE"
    THEN IF s.task_cancelled_by_user = FALSE
         THEN gnss_mw_scan_next(
                  s, rp_ok, modes[s.current_mode_index].scan_group_delay).s
         ELSE gnss_mw_send_event(
                  [s EXCEPT !.task_cancelled_by_user = FALSE], "SCAN_CANCELLED")
    ELSE gnss_mw_send_event(s, "ERROR_UNKNOWN")

\* (variant) an abort by the radio planner ends the sequence with an error
TaskDoneAborted_AbortEndsSequence(s, rp_ok) ==
    IF s.pending_error = "NONE"
    THEN IF s.task_cancelled_by_user = FALSE
         THEN gnss_mw_send_event(s, "ERROR_UNKNOWN")
         ELSE gnss_mw_send_event(
                  [s EXCEPT !.task_cancelled_by_user = FALSE], "SCAN_CANCELLED")
    ELSE IF s.pending_error = "NO_TIME"
    THEN gnss_mw_send_event(s, "ERROR_NO_TIME")
    ELSE gnss_mw_send_event(s, "ERROR_UNKNOWN")

\* completion with status SMTC_RP_RADIO_ABORTED
TaskDoneAborted(s, rp_ok) ==
    IF s.pending_error = "NONE"
    THEN IF s.task_cancelled_by_user = FALSE
         THEN gnss_mw_scan_next(
                  s, rp_ok, modes[s.current_mode_index].scan_group_delay).s
         ELSE gnss_mw_send_event(
                  [s EXCEPT !.task_cancelled_by_user = FALSE], "SCAN_CANCELLED")
    ELSE IF s.pending_error = "NO_TIME"
    THEN gnss_mw_send_event(s, "ERROR_NO_TIME")
    ELSE gnss_mw_send_event(s, "ERROR_UNKNOWN")

\* (variant) a missing almanac is reported as an unknown error
TaskDoneScanDone_AlmanacAsUnknown(s, results_rc, detected_svs, rp_ok, frame_ok) ==
    LET s1 == [s EXCEPT !.gnss_scan_group_queue.power_consumption_uah = @ + 1]
    IN  IF results_rc = "NO_ERROR"
        THEN
        LET s2 == [s1 EXCEPT !.gnss_scan_group_queue =
                      gnss_scan_group_queue_push(@, [detected_svs |-> detected_svs])]
        IN  IF gnss_scan_group_queue_is_full(s2.gnss_scan_group_queue) = FALSE
            THEN gnss_mw_scan_next(
                     s2, rp_ok, modes[s2.current_mode_index].scan_group_delay).s
            ELSE
            LET s3 == gnss_mw_send_event(
                          [s2 EXCEPT !.seq_bump =
                              /\ s2.scan_aggregate = FALSE
                              /\ gnss_scan_group_queue_is_valid(
                                     s2.gnss_scan_group_queue)],
                          "SCAN_DONE")
                r  == gnss_mw_send_results(s3, frame_ok)
            IN  IF r.ret = FALSE
                THEN gnss_mw_send_event(r.s, "TERMINATED")
                ELSE r.s
        ELSE IF results_rc = "ERROR_AIDING_POS"
        THEN gnss_mw_send_event(s1, "ERROR_NO_AIDING_POSITION")
        ELSE IF results_rc = "ERROR_NO_TIME"
        THEN gnss_mw_send_event(s1, "ERROR_NO_TIME")
        ELSE gnss_mw_send_event(s1, "ERROR_UNKNOWN")

\* completion with status SMTC_RP_RADIO_GNSS_SCAN_DONE
TaskDoneScanDone(s, results_rc, detected_svs, rp_ok, frame_ok) ==
    LET s1 == [s EXCEPT !.gnss_scan_group_queue.power_consumption_uah = @ + 1]
    IN  IF results_rc = "NO_ERROR"
        THEN
        LET s2 == [s1 EXCEPT !.gnss_scan_group_queue =
                      gnss_scan_group_queue_push(@, [detected_svs |-> detected_svs])]
        IN  IF gnss_scan_group_queue_is_full(s2.gnss_scan_group_queue) = FALSE
            THEN gnss_mw_scan_next(
                     s2, rp_ok, modes[s2.current_mode_index].scan_group_delay).s
            ELSE
            LET s3 == gnss_mw_send_event(
                          [s2 EXCEPT !.seq_bump =
                              /\ s2.scan_aggregate = FALSE
                              /\ gnss_scan_group_queue_is_valid(
                                     s2.gnss_scan_group_queue)],
                          "SCAN_DONE")
                r  == gnss_mw_send_results(s3, frame_ok)
            IN  IF r.ret = FALSE
                THEN gnss_mw_send_event(r.s, "TERMINATED")
                ELSE r.s
        ELSE IF results_rc = "ERROR_ALMANAC"
        THEN gnss_mw_send_event(s1, "ERROR_ALMANAC_UPDATE")
        ELSE IF results_rc = "ERROR_AIDING_POS"
        THEN gnss_mw_send_event(s1, "ERROR_NO_AIDING_POSITION")
        ELSE IF results_rc = "ERROR_NO_TIME"
        THEN gnss_mw_send_event(s1, "ERROR_NO_TIME")
        ELSE gnss_mw_send_event(s1, "ERROR_UNKNOWN")

\* (variant) the aborted case returns before the radio is put to sleep
gnss_mw_scan_rp_task_done_AbortedNoSleep(s, irq_status, results_rc, detected_svs, rp_ok, frame_ok) ==
    LET s0 == [s EXCEPT !.rp_task = "none",
                        !.rp_abort = FALSE,
                        !.lr11xx.scanning = FALSE]
    IN  IF irq_status = "ABORTED"
        THEN TaskDoneAborted(s0, rp_ok)
        ELSE IF irq_status = "GNSS_SCAN_DONE"
        THEN [TaskDoneScanDone(s0, results_rc, detected_svs, rp_ok, frame_ok)
                  EXCEPT !.radio_sleep = TRUE]
        ELSE [gnss_mw_send_event(s0, "ERROR_UNKNOWN") EXCEPT !.radio_sleep = TRUE]

gnss_mw_scan_rp_task_done(s, irq_status, results_rc, detected_svs, rp_ok, frame_ok) ==
    LET \* the task has left the radio planner; smtc_gnss_scan_ended()
        s0 == [s EXCEPT !.rp_task = "none",
                        !.rp_abort = FALSE,
                        !.lr11xx.scanning = FALSE]
        s1 == IF irq_status = "ABORTED"
              THEN TaskDoneAborted(s0, rp_ok)
              ELSE IF irq_status = "GNSS_SCAN_DONE"
              THEN TaskDoneScanDone(s0, results_rc, detected_svs, rp_ok, frame_ok)
              ELSE gnss_mw_send_event(s0, "ERROR_UNKNOWN")
    IN  \* mw_radio_set_sleep()
        [s1 EXCEPT !.radio_sleep = TRUE]

\* ------------------------------------------------- the state machine

Init ==
    /\ modem_radio_ctx = FALSE
    /\ gnss_scan_group_queue =
           [token |-> 0, scan_group_size |-> 0, scan_group_sv_min |-> 0,
            scans |-> <<>>, nb_scans_sent |-> 0, power_consumption_uah |-> 0]
    /\ aiding_position_received = FALSE
    /\ user_aiding_position_update_received = FALSE
    /\ user_aiding_position_update = NoPosition
    /\ solver_aiding_position_update_received = FALSE
    /\ solver_aiding_position_update = 0
    /\ current_mode_index = GNSS_MW_MODE_STATIC
    /\ pending_error = "NONE"
    /\ pending_events = {}
    /\ scan_aggregate = FALSE
    /\ send_bypass = FALSE
    /\ task_cancelled_by_user = FALSE
    /\ task_running = FALSE
    /\ lr11xx_scan_context =
           [almanac_crc |-> 0, aiding_position_latitude |-> 0,
            aiding_position_longitude |-> 0, assisted |-> FALSE,
            mode |-> GNSS_MW_MODE_STATIC]
    /\ rp_task = "none"
    /\ rp_abort = FALSE
    /\ rp_delay_s = 0
    /\ lr11xx = [aiding_position |-> NoPosition, solver_msg |-> 0,
                 almanac_crc |-> 1, scanning |-> FALSE, assisted |-> FALSE]
    /\ radio_sleep = TRUE
    /\ tx_pending = FALSE
    /\ app_pc = "idle"
    /\ app_arg = NoPosition
    /\ seq_active = FALSE
    /\ nb_launch = 0
    /\ emitted = <<>>
    /\ nb_tx_req = 0
    /\ nb_tx_done = 0
    /\ token_at_start = 0
    /\ seq_bump = FALSE
    /\ launch_log = <<>>
    /\ update_fresh = {}
    /\ stale_applied = FALSE
    /\ cancel_called = FALSE

\* --- application context (one call at a time)

\* the application initialises the middleware once, before anything else works
MwInit ==
    /\ app_pc = "idle"
    /\ modem_radio_ctx = FALSE
    /\ Commit(gnss_mw_init(State))

\* start() with a mode argument taken from the set Modes
ScanStartIn(Modes) ==
    /\ app_pc = "idle"
    /\ gnss_scan_group_queue.token < MaxToken
    /\ \E mode \in Modes, start_delay \in StartDelays, rp_ok \in BOOLEAN :
           Commit(gnss_mw_scan_start(State, mode, start_delay, rp_ok).s)

ScanStart == ScanStartIn(ModeArgs)

\* start() in mobile mode or with a mode out of range
ScanStartMobile == ScanStartIn({GNSS_MW_MODE_MOBILE, GNSS_MW_MODE_SIZE})

ScanCancelCheck ==
    /\ app_pc = "idle"
    /\ Commit(gnss_mw_scan_cancel_check(State).s)

ScanCancelAbort ==
    /\ app_pc = "cancel"
    /\ Commit(gnss_mw_scan_cancel_abort(State).s)

SetUserAidingPosition ==
    /\ app_pc = "idle"
    /\ \E position \in UserPositions :
           Commit(gnss_mw_set_user_aiding_position(State, position).s)

\* --- gnss_mw_set_user_aiding_position() as three steps of the application

SetUserLatitude ==
    /\ app_pc = "idle"
    /\ \E position \in UserPositionsTwo :
           Commit(gnss_mw_set_user_aiding_position_latitude(State, position).s)

SetUserLongitude ==
    /\ app_pc = "set_user_longitude"
    /\ Commit(gnss_mw_set_user_aiding_position_longitude(State).s)

SetUserReceived ==
    /\ app_pc = "set_user_received"
    /\ Commit(gnss_mw_set_user_aiding_position_received(State).s)

SetSolverAidingPosition ==
    /\ app_pc = "idle"
    /\ \E payload \in SolverPayloads, size \in SolverSizes :
           Commit(gnss_mw_set_solver_aiding_position(State, payload, size).s)

ScanAggregate ==
    /\ app_pc = "idle"
    /\ \E aggregate \in BOOLEAN : Commit(gnss_mw_scan_aggregate(State, aggregate))

SendBypass ==
    /\ app_pc = "idle"
    /\ \E no_send \in BOOLEAN : Commit(gnss_mw_send_bypass(State, no_send))

ClearPendingEvents ==
    /\ app_pc = "idle"
    /\ Commit(gnss_mw_clear_pending_events(State))

\* --- interrupt context: radio planner and modem

\* the radio planner starts the queued task, unless its abort was asked;
\* the outcomes of the driver calls matter when the time is available only
RpTaskLaunch ==
    /\ rp_task = "queued"
    /\ rp_abort = FALSE
    /\ nb_launch < MaxLaunches
    /\ \/ \E user_ok \in BOOLEAN, solver_ok \in BOOLEAN, scan_ok \in BOOLEAN :
              Commit(gnss_mw_scan_rp_task_launch(State, "OK", user_ok, solver_ok, scan_ok))
       \/ \E time_rc \in TimeRcs \ {"OK"} :
              Commit(gnss_mw_scan_rp_task_launch(State, time_rc, TRUE, TRUE, TRUE))

\* the radio planner ends the task: aborted (on request, or by itself for a
\* task of higher priority), scan done (a scan was started and not aborted),
\* or another status of a running task. After a scan done with a result,
\* either the next scan is queued (ok: the planner accepts it) or the first
\* uplink is requested (ok: the modem accepts it), never both.
RpTaskDone ==
    \/ /\ rp_task \in {"queued", "running"}
       /\ \E rp_ok \in BOOLEAN :
              Commit(gnss_mw_scan_rp_task_done(State, "ABORTED", "NO_ERROR", 0, rp_ok, TRUE))
    \/ /\ rp_task = "running" /\ lr11xx.scanning /\ ~rp_abort
       /\ \/ \E detected_svs \in SvChoices, ok \in BOOLEAN :
                 Commit(gnss_mw_scan_rp_task_done(
                            State, "GNSS_SCAN_DONE", "NO_ERROR", detected_svs, ok, ok))
          \/ \E results_rc \in GetResultsRcs \ {"NO_ERROR"} :
                 Commit(gnss_mw_scan_rp_task_done(
                            State, "GNSS_SCAN_DONE", results_rc, 0, TRUE, TRUE))
    \/ /\ rp_task = "running" /\ ~rp_abort
       /\ Commit(gnss_mw_scan_rp_task_done(State, "OTHER", "NO_ERROR", 0, TRUE, TRUE))

TxDone ==
    /\ tx_pending = TRUE
    /\ \E frame_ok \in BOOLEAN : Commit(gnss_mw_tx_done_callback(State, frame_ok))

Next ==
    \/ MwInit
    \/ ScanStart
    \/ ScanCancelCheck
    \/ ScanCancelAbort
    \/ SetUserAidingPosition
    \/ SetSolverAidingPosition
    \/ ScanAggregate
    \/ SendBypass
    \/ ClearPendingEvents
    \/ RpTaskLaunch
    \/ RpTaskDone
    \/ TxDone

Spec == Init /\ [][Next]_vars

\* The sequence with its configuration: every function but the solver's
\* assistance position (the user's one switches to assisted scans as well),
\* started in mobile mode (groups of 1 or 2 scans).
NextSeq ==
    \/ MwInit
    \/ ScanStartMobile
    \/ ScanCancelCheck
    \/ ScanCancelAbort
    \/ SetUserAidingPosition
    \/ ScanAggregate
    \/ SendBypass
    \/ ClearPendingEvents
    \/ RpTaskLaunch
    \/ RpTaskDone
    \/ TxDone

SpecSeq == Init /\ [][NextSeq]_vars


\* The same, with the radio planner bound to end every task it holds: an
\* aborted task gets its completion notification.
SpecSeqLive == SpecSeq /\ WF_vars(RpTaskDone)
\* The sequence with the two assistance position updates, in the default
\* configuration (no aggregate, no bypass).
NextAiding ==
    \/ MwInit
    \/ ScanStartMobile
    \/ ScanCancelCheck
    \/ ScanCancelAbort
    \/ SetUserAidingPosition
    \/ SetSolverAidingPosition
    \/ RpTaskLaunch
    \/ RpTaskDone
    \/ TxDone

SpecAiding == Init /\ [][NextAiding]_vars


\* The start of a sequence in every mode, autonomous or assisted, in the
\* default configuration and with no cancel.
NextStart ==
    \/ MwInit
    \/ ScanStart
    \/ SetUserAidingPosition
    \/ SetSolverAidingPosition
    \/ RpTaskLaunch
    \/ RpTaskDone
    \/ TxDone

SpecStart == Init /\ [][NextStart]_vars

\* The user's assistance position set write by write while the radio planner
\* runs the sequence, in the default configuration.
NextPreempt ==
    \/ MwInit
    \/ ScanStartMobile
    \/ SetUserLatitude
    \/ SetUserLongitude
    \/ SetUserReceived
    \/ RpTaskLaunch
    \/ RpTaskDone
    \/ TxDone

SpecPreempt == Init /\ [][NextPreempt]_vars
\* ================================================================ claims

ValidModes == 0..(GNSS_MW_MODE_SIZE - 1)

\* a scan of the current sequence was launched and no terminal event sent since
\* (Running, Scheduled between two scans of the group, Draining)
LaunchedSequence == seq_active /\ nb_launch > 0

SequenceFields(s) ==
    <<s.gnss_scan_group_queue, s.pending_events, s.pending_error,
      s.task_cancelled_by_user>>

\* C1 (as claimed): in every reachable state start() with a supported mode
\* returns BUSY if and only if a sequence is not Idle (a start was accepted
\* and no terminal event sent yet), the Scheduled state before the first
\* launch notification included.
C1_StartBusyIffNotIdle ==
    (modem_radio_ctx /\ app_pc = "idle") =>
        \A mode \in ValidModes, start_delay \in StartDelays, rp_ok \in BOOLEAN :
            (gnss_mw_scan_start(State, mode, start_delay, rp_ok).rc = "BUSY")
                <=> seq_active

\* C1 (amended): start() with a supported mode returns BUSY if and only if a
\* scan of the current sequence has been launched and no terminal event has
\* been sent since; a start() that returns BUSY changes none of the group
\* queue, the pending events, the pending error and the cancel flag.
C1_StartBusyIffLaunched ==
    (modem_radio_ctx /\ app_pc = "idle") =>
        \A mode \in ValidModes, start_delay \in StartDelays, rp_ok \in BOOLEAN :
            LET r == gnss_mw_scan_start(State, mode, start_delay, rp_ok)
            IN  /\ (r.rc = "BUSY") <=> LaunchedSequence
                /\ (r.rc = "BUSY") => SequenceFields(r.s) = SequenceFields(State)

\* C1 witness: between two scans of a group (next scan queued) start() is
\* refused with BUSY, and before the first launch it is not
C1_Witness ==
    /\ app_pc = "idle"
    /\ seq_active /\ nb_launch = 1 /\ rp_task = "queued"
    /\ Len(gnss_scan_group_queue.scans) = 1
    /\ gnss_mw_scan_start(State, GNSS_MW_MODE_MOBILE, 5, TRUE).rc = "BUSY"

\* C2: cancel() returns OK, sets the cancel flag and asks the radio planner to
\* abort the task if and only if it is called before a scan of the sequence
\* has been launched; once a scan was launched and until the terminal event
\* (between two scans and while the results are sent as well) it returns BUSY
\* and changes nothing: no cancel flag, no abort request.
C2_CancelOkIffNotLaunched ==
    /\ app_pc = "idle" =>
           LET r == gnss_mw_scan_cancel_check(State)
           IN  /\ (r.rc = "BUSY") <=> LaunchedSequence
               /\ (r.rc = "BUSY") => r.s = State
               /\ (r.rc # "BUSY") => r.s.app_pc = "cancel"
    /\ app_pc = "cancel" =>
           LET r == gnss_mw_scan_cancel_abort(State)
           IN  /\ r.rc = "OK"
               /\ r.s.task_cancelled_by_user = TRUE
               /\ (rp_task # "none") => r.s.rp_abort = TRUE

\* C2 witness: a cancel() made before the first launch has returned: the
\* flag is set and the abort of the queued task is requested
C2_Witness ==
    /\ app_pc = "idle"
    /\ seq_active /\ nb_launch = 0
    /\ task_cancelled_by_user /\ rp_task = "queued" /\ rp_abort

\* the step sends SCAN_DONE (alone, or followed by TERMINATED)
EmitsScanDone ==
    /\ Len(emitted') > Len(emitted)
    /\ SubSeq(emitted', 1, Len(emitted)) = emitted
    /\ emitted'[Len(emitted) + 1] = "SCAN_DONE"

\* the step is a launch notification
LaunchStep == nb_launch' = nb_launch + 1

\* C3 (as claimed, its bound on the scan attempts): within one sequence the
\* number of launch notifications never exceeds the capacity of the group,
\* also when the radio planner aborts scans with no pending error.
C3_AttemptsBoundedByCapacity ==
    seq_active => nb_launch <= gnss_scan_group_queue.scan_group_size

\* the sequence sent SCAN_DONE and uplinks were not bypassed
DrainedSequence ==
    /\ "SCAN_DONE" \in Range(emitted)
    /\ nb_tx_req > 0
    /\ send_bypass = FALSE

\* C4 (as claimed): a sequence whose group fills and which is not bypassed
\* sends exactly one SCAN_DONE, then exactly one TERMINATED, and the count
\* reported with TERMINATED is the number of results whose uplink was accepted
\* and completed, at most the capacity of the group.
C4_SentCountIsTransmitted ==
    (DrainedSequence /\ "TERMINATED" \in pending_events) =>
        /\ emitted = <<"SCAN_DONE", "TERMINATED">>
        /\ gnss_mw_get_event_data_terminated(State).nb_scans_sent = nb_tx_done
        /\ nb_tx_done <= gnss_scan_group_queue.scan_group_size

TokenPlus(n) == (token_at_start + n) % TokenModulus

\* C5: from one sequence to the next the token moves by exactly 1 if and only
\* if the group of the sequence filled while valid with aggregate mode off
\* (seq_bump), otherwise (aggregate mode, invalid group, sequence cancelled or
\* ended by an error) it keeps its value; only the sending of SCAN_DONE and
\* the initialisation change the token.
C5_TokenPolicy ==
    /\ [](gnss_scan_group_queue.token = TokenPlus(IF seq_bump THEN 1 ELSE 0))
    /\ [][(gnss_scan_group_queue'.token # gnss_scan_group_queue.token) =>
              \/ EmitsScanDone
              \/ ~modem_radio_ctx /\ modem_radio_ctx']_vars

\* C5 witness: a second sequence in a row has advanced the token
C5_Witness ==
    /\ token_at_start = 1 /\ seq_bump
    /\ gnss_scan_group_queue.token = 2
    /\ "SCAN_DONE" \in Range(emitted)

\* the group filled while valid with aggregate off, and its SCAN_DONE is pending
ValidScanDonePending == seq_bump /\ "SCAN_DONE" \in pending_events

\* C6 (as claimed): the SCAN_DONE data of a valid group, aggregate off, report
\* the token T the group had while its scans were collected.
C6_ScanDoneReportsCollectedToken ==
    ValidScanDonePending =>
        gnss_mw_get_event_data_scan_done(State).token = token_at_start

\* C6 (amended): the SCAN_DONE data of a valid group, aggregate off, report
\* T + 1, where T is the token the group had while its scans were collected
\* (the token is advanced before the event is made pending), and the next
\* sequence starts with that same T + 1.
C6_ScanDoneReportsAdvancedToken ==
    /\ [](ValidScanDonePending =>
              /\ gnss_mw_get_event_data_scan_done(State).rc = "OK"
              /\ gnss_mw_get_event_data_scan_done(State).token = TokenPlus(1))
    /\ [][(seq_bump /\ ~seq_bump') => token_at_start' = TokenPlus(1)]_vars

\* C6 witness: the sequence after a valid one started with token 1 and its
\* own SCAN_DONE data are pending
C6_Witness ==
    /\ token_at_start = 1
    /\ ValidScanDonePending
    /\ gnss_mw_get_event_data_scan_done(State).token = 2

\* C7: with bypass mode on when the group fills, TERMINATED follows SCAN_DONE
\* at once, no uplink was requested at any point of the sequence and the
\* count reported with TERMINATED is 0, whatever the group holds.
C7_BypassSendsNothing ==
    /\ [][(EmitsScanDone /\ send_bypass) =>
              /\ emitted' = emitted \o <<"SCAN_DONE", "TERMINATED">>
              /\ nb_tx_req' = 0
              /\ tx_pending' = FALSE
              /\ gnss_mw_get_event_data_terminated(State)' =
                     [rc |-> "OK", nb_scans_sent |-> 0]]_vars
    /\ []((emitted = <<"SCAN_DONE", "TERMINATED">> /\ nb_tx_req = 0
               /\ "TERMINATED" \in pending_events) =>
              gnss_mw_get_event_data_terminated(State).nb_scans_sent = 0)

\* C7 witness: a group of two results filled in bypass mode
C7_Witness ==
    /\ send_bypass
    /\ emitted = <<"SCAN_DONE", "TERMINATED">>
    /\ Len(gnss_scan_group_queue.scans) = 2
    /\ nb_tx_req = 0 /\ ~tx_pending

\* C8 (as claimed): once a scan of a sequence has been launched, the
\* sequence never sends SCAN_CANCELLED.
C8_NoCancelledAfterLaunch ==
    nb_launch > 0 => "SCAN_CANCELLED" \notin Range(emitted)

\* the driver writes of assistance updates tried by the last launch, in order
LaunchWrites ==
    SelectSeq(launch_log,
              LAMBDA e : e \in {"user", "user_rejected", "solver", "solver_rejected"})

UserTags == {"user", "user_rejected"}
SolverTags == {"solver", "solver_rejected"}

\* C9: one launch notification writes at most one user update and at most
\* one solver update to the driver, the user's before the solver's; after a
\* write accepted by the driver the pending flag of the slot is false and the
\* driver holds the stored update; a stored update is never written a second
\* time by a later launch unless its setter was called again.
C9_UpdatesAppliedOnce ==
    /\ [](/\ Cardinality({i \in DOMAIN LaunchWrites : LaunchWrites[i] \in UserTags}) <= 1
          /\ Cardinality({i \in DOMAIN LaunchWrites : LaunchWrites[i] \in SolverTags}) <= 1
          /\ \A i, j \in DOMAIN LaunchWrites :
                 (LaunchWrites[i] \in UserTags /\ LaunchWrites[j] \in SolverTags) => i < j
          /\ stale_applied = FALSE)
    /\ [][LaunchStep =>
              /\ "user" \in Range(launch_log') =>
                     /\ user_aiding_position_update_received
                     /\ user_aiding_position_update_received' = FALSE
                     /\ lr11xx'.aiding_position = user_aiding_position_update
              /\ "solver" \in Range(launch_log') =>
                     /\ solver_aiding_position_update_received
                     /\ solver_aiding_position_update_received' = FALSE
                     /\ lr11xx'.solver_msg = solver_aiding_position_update]_vars

\* C9 witness: a launch has written both pending updates, user's first
C9_Witness ==
    /\ LaunchWrites = <<"user", "solver">>
    /\ rp_task = "running"
    /\ user_aiding_position_update_received = FALSE
    /\ solver_aiding_position_update_received = FALSE
    /\ lr11xx.aiding_position \in UserPositions
    /\ lr11xx.solver_msg \in SolverPayloads

\* C10 (as claimed): an update pending when a launch notification runs is
\* consumed by that launch (written to the driver, flag cleared), whatever
\* the outcome of the time query of that launch.
C10_PendingConsumedByNextLaunch ==
    [][LaunchStep =>
           /\ user_aiding_position_update_received =>
                  /\ "user" \in Range(launch_log')
                  /\ user_aiding_position_update_received' = FALSE
           /\ solver_aiding_position_update_received =>
                  /\ "solver" \in Range(launch_log')
                  /\ solver_aiding_position_update_received' = FALSE]_vars

\* the launch got the time, and the driver did not reject the write
TimeOk == launch_log'[1] = "OK"

\* C10 (amended): an update pending when a launch notification runs is
\* consumed by that launch if and only if the time query of the launch
\* succeeds and the driver accepts the write; otherwise (no time, time query
\* failed, write rejected) nothing is written and the update stays pending,
\* unchanged, for a later launch.
C10_PendingConsumedWhenTimeOk ==
    [][LaunchStep =>
           /\ user_aiding_position_update_received =>
                  IF TimeOk /\ "user_rejected" \notin Range(launch_log')
                  THEN /\ "user" \in Range(launch_log')
                       /\ user_aiding_position_update_received' = FALSE
                       /\ lr11xx'.aiding_position = user_aiding_position_update
                  ELSE /\ "user" \notin Range(launch_log')
                       /\ user_aiding_position_update_received' = TRUE
                       /\ lr11xx'.aiding_position = lr11xx.aiding_position
                       /\ UNCHANGED user_aiding_position_update
           /\ solver_aiding_position_update_received =>
                  IF TimeOk /\ "solver_rejected" \notin Range(launch_log')
                  THEN /\ "solver" \in Range(launch_log')
                       /\ solver_aiding_position_update_received' = FALSE
                       /\ lr11xx'.solver_msg = solver_aiding_position_update
                  ELSE /\ "solver" \notin Range(launch_log')
                       /\ solver_aiding_position_update_received' = TRUE
                       /\ lr11xx'.solver_msg = lr11xx.solver_msg
                       /\ UNCHANGED solver_aiding_position_update]_vars

\* C10 witness: a launch without time has left the two updates pending,
\* nothing written to the driver
C10_Witness ==
    /\ launch_log = <<"NO_TIME">>
    /\ rp_task = "running" /\ rp_abort
    /\ user_aiding_position_update_received
    /\ solver_aiding_position_update_received
    /\ lr11xx.aiding_position = NoPosition
    /\ lr11xx.solver_msg = 0


\* mode arguments outside the configured set
InvalidModes == {GNSS_MW_MODE_SIZE, GNSS_MW_MODE_SIZE + 1}

\* C11: start() with a mode outside the configured set returns the failure
\* code (never BUSY, never OK) in every state, a running sequence included,
\* and leaves the whole state as it was: selected mode, group queue, pending
\* events, pending error, cancel flag and radio planner slot.
C11_InvalidModeRejected ==
    app_pc = "idle" =>
        \A mode \in InvalidModes, start_delay \in StartDelays, rp_ok \in BOOLEAN :
            gnss_mw_scan_start(State, mode, start_delay, rp_ok) = Ret(State, "FAILED")

\* C11 witness: while the results of a sequence are being sent, with
\* SCAN_DONE pending, start() with a mode out of range fails and is not BUSY
C11_Witness ==
    /\ app_pc = "idle"
    /\ task_running /\ tx_pending
    /\ pending_events = {"SCAN_DONE"}
    /\ gnss_mw_scan_start(State, GNSS_MW_MODE_SIZE, 5, TRUE).rc = "FAILED"

\* C12: every completion notification leaves the radio in sleep, whatever its
\* status, the pending error, the cancel flag and the outcome of the results,
\* also when the next scan cannot be queued or the uplink is refused; the
\* radio is awake only while a launched task occupies the radio planner.
C12_RadioSleepsAfterTaskDone ==
    /\ [](rp_task # "running" => radio_sleep)
    /\ [][RpTaskDone => radio_sleep']_vars

\* C12 witness: a task was aborted by the radio planner, the next scan could
\* not be queued, and the radio sleeps
C12_Witness ==
    /\ radio_sleep
    /\ rp_task = "none"
    /\ seq_active /\ task_running /\ nb_launch > 0
    /\ emitted = <<>>
    /\ pending_error = "NONE"

\* the last event sent in the current sequence
LastEvent == emitted[Len(emitted)]

\* C13: once an event other than SCAN_DONE has been sent the sequence is not
\* running and start() with a supported mode is not refused with BUSY; from
\* the sending of SCAN_DONE until the terminal event the sequence is running
\* and start() and cancel() both return BUSY.
C13_TerminalEventFreesStart ==
    (app_pc = "idle" /\ emitted # <<>>) =>
        /\ LastEvent \in TerminalEvents =>
               /\ task_running = FALSE
               /\ \A mode \in ValidModes, start_delay \in StartDelays, rp_ok \in BOOLEAN :
                      gnss_mw_scan_start(State, mode, start_delay, rp_ok).rc # "BUSY"
        /\ LastEvent = "SCAN_DONE" =>
               /\ task_running = TRUE
               /\ \A mode \in ValidModes, start_delay \in StartDelays, rp_ok \in BOOLEAN :
                      gnss_mw_scan_start(State, mode, start_delay, rp_ok).rc = "BUSY"
               /\ gnss_mw_scan_cancel_check(State).rc = "BUSY"

\* C13 witness: SCAN_DONE then TERMINATED have been sent after an uplink, and
\* start() is accepted again
C13_Witness ==
    /\ app_pc = "idle"
    /\ emitted = <<"SCAN_DONE", "TERMINATED">>
    /\ nb_tx_done > 0
    /\ task_running = FALSE
    /\ gnss_mw_scan_start(State, GNSS_MW_MODE_MOBILE, 5, TRUE).rc = "OK"

\* cancel() was called after the start() of the sequence was accepted and
\* before any launch: the flag is set and the abort of the queued task asked
CancelledBeforeLaunch ==
    /\ seq_active /\ nb_launch = 0
    /\ task_cancelled_by_user
    /\ rp_task = "queued" /\ rp_abort

\* C14: after a cancel() made between the accepted start() and the first
\* launch, no scan is launched and nothing has been sent for the sequence; the
\* completion notification that follows (status aborted) sends SCAN_CANCELLED
\* and nothing else, clears the cancel flag and leaves the sequence not
\* running with no task queued; that notification comes, unless the
\* application calls start() again first.
C14_CancelBeforeLaunchEmitsCancelled ==
    /\ [](CancelledBeforeLaunch =>
              /\ emitted = <<>>
              /\ task_running = FALSE
              /\ pending_error = "NONE")
    /\ [][CancelledBeforeLaunch => ~RpTaskLaunch]_vars
    /\ [][(CancelledBeforeLaunch /\ RpTaskDone) =>
              /\ emitted' = <<"SCAN_CANCELLED">>
              /\ pending_events' = pending_events \cup {"SCAN_CANCELLED"}
              /\ task_cancelled_by_user' = FALSE
              /\ task_running' = FALSE
              /\ seq_active' = FALSE
              /\ rp_task' = "none"
              /\ nb_launch' = 0]_vars
    /\ CancelledBeforeLaunch ~>
           \/ emitted = <<"SCAN_CANCELLED">> /\ nb_launch = 0
           \/ seq_active /\ task_cancelled_by_user = FALSE

\* C14 witness: SCAN_CANCELLED was sent for a sequence that was never launched
C14_Witness ==
    /\ emitted = <<"SCAN_CANCELLED">>
    /\ "SCAN_CANCELLED" \in pending_events
    /\ nb_launch = 0
    /\ task_cancelled_by_user = FALSE
    /\ task_running = FALSE
    /\ rp_task = "none"

\* the event sent for an internal error once the task is aborted
ErrorEvent(error) == IF error = "NO_TIME" THEN "ERROR_NO_TIME" ELSE "ERROR_UNKNOWN"

\* C15: a launch notification that does not get the time starts no scan and
\* writes nothing to the driver, records NO_TIME (UNKNOWN for another failure
\* of the time query), asks the abort of the task and sends no event; the
\* completion notification that finds an internal error pending sends
\* ERROR_NO_TIME for NO_TIME and ERROR_UNKNOWN for SCAN_FAILED or UNKNOWN,
\* as its only event, and leaves the sequence not running with no task queued.
C15_NoTimeEndsWithError ==
    /\ [][(LaunchStep /\ launch_log'[1] # "OK") =>
              /\ lr11xx' = lr11xx
              /\ lr11xx'.scanning = FALSE
              /\ pending_error' = (IF launch_log'[1] = "NO_TIME" THEN "NO_TIME" ELSE "UNKNOWN")
              /\ rp_abort' = TRUE
              /\ task_running' = TRUE
              /\ emitted' = emitted]_vars
    /\ [][(RpTaskDone /\ pending_error # "NONE") =>
              /\ rp_abort = TRUE
              /\ emitted' = Append(emitted, ErrorEvent(pending_error))
              /\ pending_events' = pending_events \cup {ErrorEvent(pending_error)}
              /\ task_running' = FALSE
              /\ seq_active' = FALSE
              /\ rp_task' = "none"]_vars

\* C15 witness: the time was not available at the first launch and the
\* sequence has ended with ERROR_NO_TIME, no scan having been started
C15_Witness ==
    /\ launch_log = <<"NO_TIME">>
    /\ pending_error = "NO_TIME"
    /\ emitted = <<"ERROR_NO_TIME">>
    /\ "ERROR_NO_TIME" \in pending_events
    /\ nb_launch = 1
    /\ task_running = FALSE
    /\ gnss_scan_group_queue.power_consumption_uah = 0

\* C16: gnss_mw_get_event_data_scan_done() succeeds exactly when SCAN_DONE is
\* in the pending events and gnss_mw_get_event_data_terminated() exactly when
\* TERMINATED is, and they fail otherwise; both fail right after
\* gnss_mw_clear_pending_events() and right after a start() that went past
\* its checks, whatever the group queue still holds.
C16_EventDataNeedsPendingBit ==
    /\ (gnss_mw_get_event_data_scan_done(State).rc = "OK")
           <=> ("SCAN_DONE" \in pending_events)
    /\ (gnss_mw_get_event_data_terminated(State).rc = "OK")
           <=> ("TERMINATED" \in pending_events)
    /\ gnss_mw_get_event_data_scan_done(State).rc \in {"OK", "FAILED"}
    /\ gnss_mw_get_event_data_terminated(State).rc \in {"OK", "FAILED"}
    /\ LET s == gnss_mw_clear_pending_events(State)
       IN  /\ gnss_mw_get_event_data_scan_done(s).rc = "FAILED"
           /\ gnss_mw_get_event_data_terminated(s).rc = "FAILED"
           /\ s.gnss_scan_group_queue = gnss_scan_group_queue
    /\ (app_pc = "idle" /\ modem_radio_ctx /\ task_running = FALSE) =>
           \A mode \in ValidModes, start_delay \in StartDelays, rp_ok \in BOOLEAN :
               LET r == gnss_mw_scan_start(State, mode, start_delay, rp_ok)
               IN  /\ gnss_mw_get_event_data_scan_done(r.s).rc = "FAILED"
                   /\ gnss_mw_get_event_data_terminated(r.s).rc = "FAILED"

\* C16 witness: the events of an ended sequence were cleared while its group
\* is still in the queue with a result sent, and neither data can be read
C16_Witness ==
    /\ emitted = <<"SCAN_DONE", "TERMINATED">>
    /\ pending_events = {}
    /\ Len(gnss_scan_group_queue.scans) > 0
    /\ gnss_scan_group_queue.nb_scans_sent > 0
    /\ gnss_mw_get_event_data_scan_done(State).rc = "FAILED"
    /\ gnss_mw_get_event_data_terminated(State).rc = "FAILED"

\* C17: gnss_mw_clear_pending_events() empties the pending events and changes
\* nothing else, in whichever state it is called, a running sequence
\* included: not task_running, the cancel flag, the pending error, the group
\* queue (results, counts, token), the pending assistance updates, nor the
\* task in the radio planner.
C17_ClearKeepsSequence ==
    /\ [](gnss_mw_clear_pending_events(State) = [State EXCEPT !.pending_events = {}])
    /\ [][ClearPendingEvents =>
              /\ pending_events' = {}
              /\ UNCHANGED <<task_running, task_cancelled_by_user, pending_error,
                             gnss_scan_group_queue, aiding_position_received,
                             user_aiding_position_update_received,
                             user_aiding_position_update,
                             solver_aiding_position_update_received,
                             solver_aiding_position_update,
                             current_mode_index, lr11xx_scan_context,
                             rp_task, rp_abort, tx_pending, seq_active>>]_vars

\* C17 witness: the events were cleared while the results are being sent:
\* SCAN_DONE was sent, is pending no more, and the sequence is still running
C17_Witness ==
    /\ emitted = <<"SCAN_DONE">>
    /\ pending_events = {}
    /\ task_running = TRUE
    /\ tx_pending = TRUE
    /\ Len(gnss_scan_group_queue.scans) > 0

\* an assistance position was given by one of the two setters at some time:
\* it is still pending, or it has been written to the driver
AssistanceEverSupplied ==
    \/ user_aiding_position_update_received
    \/ solver_aiding_position_update_received
    \/ lr11xx.aiding_position # NoPosition
    \/ lr11xx.solver_msg # 0

\* C18: start() is accepted exactly when the radio planner takes the task; an
\* accepted start() leaves an empty group of capacity 1 with the single scan
\* threshold when no assistance position was ever given, and otherwise an
\* empty group with the capacity and threshold of the selected mode (static:
\* 4 scans, mobile: 2 scans), and one task queued in the radio planner with
\* the delay asked.
C18_StartCreatesGroup ==
    /\ aiding_position_received <=> AssistanceEverSupplied
    /\ (app_pc = "idle" /\ modem_radio_ctx /\ task_running = FALSE) =>
           \A mode \in ValidModes, start_delay \in StartDelays, rp_ok \in BOOLEAN :
               LET r == gnss_mw_scan_start(State, mode, start_delay, rp_ok)
                   q == r.s.gnss_scan_group_queue
               IN  /\ (r.rc = "OK") <=> rp_ok
                   /\ (r.rc = "OK") =>
                          /\ q.scans = <<>> /\ q.nb_scans_sent = 0
                          /\ q.token = gnss_scan_group_queue.token
                          /\ r.s.current_mode_index = mode
                          /\ IF ~AssistanceEverSupplied
                             THEN /\ q.scan_group_size = 1
                                  /\ q.scan_group_sv_min = GNSS_SCAN_SINGLE_NAV_MIN_SV
                             ELSE /\ q.scan_group_size =
                                         (IF mode = GNSS_MW_MODE_STATIC THEN 4 ELSE 2)
                                  /\ q.scan_group_sv_min = modes[mode].sv_min
                          /\ r.s.rp_task = "queued"
                          /\ r.s.rp_abort = FALSE
                          /\ r.s.rp_delay_s = start_delay

\* C18 witness: an assisted sequence was started in static mode, its group
\* of 4 scans is empty and its first scan is queued
C18_Witness ==
    /\ seq_active /\ nb_launch = 0
    /\ aiding_position_received
    /\ current_mode_index = GNSS_MW_MODE_STATIC
    /\ gnss_scan_group_queue.scan_group_size = 4
    /\ gnss_scan_group_queue.scans = <<>>
    /\ rp_task = "queued" /\ rp_delay_s = 5

\* what is left alone by the two setters of the assistance position
SequenceAndEvents ==
    <<task_running, task_cancelled_by_user, pending_error, pending_events,
      gnss_scan_group_queue, current_mode_index, lr11xx_scan_context,
      scan_aggregate, send_bypass, rp_task, rp_abort, lr11xx, tx_pending,
      seq_active>>

\* C19: once gnss_mw_init() was called, gnss_mw_set_user_aiding_position()
\* and gnss_mw_set_solver_aiding_position() with the expected size return OK
\* in every state (idle, scheduled, running, sending), store the update, set
\* their own pending flag and aiding_position_received, and change nothing
\* else: not task_running, the group queue, the pending events, nor the
\* pending update of the other setter.
C19_SettersNeverBusy ==
    /\ [](modem_radio_ctx =>
            /\ \A position \in UserPositions :
                   gnss_mw_set_user_aiding_position(State, position) =
                       Ret([State EXCEPT
                               !.user_aiding_position_update = position,
                               !.user_aiding_position_update_received = TRUE,
                               !.aiding_position_received = TRUE,
                               !.update_fresh = @ \cup {"user"}], "OK")
            /\ \A payload \in SolverPayloads :
                   gnss_mw_set_solver_aiding_position(
                           State, payload, SOLVER_AIDING_POSITION_SIZE) =
                       Ret([State EXCEPT
                               !.solver_aiding_position_update = payload,
                               !.solver_aiding_position_update_received = TRUE,
                               !.aiding_position_received = TRUE,
                               !.update_fresh = @ \cup {"solver"}], "OK"))
    /\ [][SetUserAidingPosition =>
              UNCHANGED <<SequenceAndEvents, solver_aiding_position_update_received,
                          solver_aiding_position_update>>]_vars
    /\ [][SetSolverAidingPosition =>
              UNCHANGED <<SequenceAndEvents, user_aiding_position_update_received,
                          user_aiding_position_update>>]_vars

\* C19 witness: both setters were called while a scan is in progress (the
\* launch had no update to write), and both updates are pending
C19_Witness ==
    /\ task_running = TRUE
    /\ lr11xx.scanning = TRUE
    /\ launch_log = <<"OK", "scan">>
    /\ user_aiding_position_update_received
    /\ solver_aiding_position_update_received
    /\ aiding_position_received
    /\ lr11xx.assisted = FALSE

\* the step is a start() that returned OK
AcceptedStartStep ==
    /\ app_pc = "idle"
    /\ \E mode \in ModeArgs, start_delay \in StartDelays, rp_ok \in BOOLEAN :
           LET r == gnss_mw_scan_start(State, mode, start_delay, rp_ok)
           IN  r.rc = "OK" /\ Commit(r.s)

\* the step is a start() that went past its checks (middleware initialised,
\* supported mode, no sequence running), whatever it returned
StartPastChecksStep ==
    /\ app_pc = "idle"
    /\ modem_radio_ctx /\ task_running = FALSE
    /\ \E mode \in ValidModes, start_delay \in StartDelays, rp_ok \in BOOLEAN :
           Commit(gnss_mw_scan_start(State, mode, start_delay, rp_ok).s)

\* the events sent by the step
TagsSent ==
    IF Len(emitted') > Len(emitted)
    THEN {emitted'[i] : i \in (Len(emitted) + 1)..Len(emitted')}
    ELSE {}

\* the pending events keep their tags and gain those sent by the step
EventsAccumulate ==
    /\ pending_events \subseteq pending_events'
    /\ pending_events' \ pending_events \subseteq TagsSent

AbortedStep(rp_ok) ==
    /\ rp_task \in {"queued", "running"}
    /\ Commit(gnss_mw_scan_rp_task_done(State, "ABORTED", "NO_ERROR", 0, rp_ok, TRUE))

\* C21: a completion notification with status aborted, with no pending error
\* and no cancel request, sends no event, leaves the sequence as it is
\* (task_running, group queue, pending events) and asks the radio planner to
\* queue the next scan after the scan_group_delay of the selected mode.
C21_AbortByPlannerReschedules ==
    [][\A rp_ok \in BOOLEAN :
           (AbortedStep(rp_ok) /\ pending_error = "NONE"
                               /\ task_cancelled_by_user = FALSE) =>
               /\ emitted' = emitted
               /\ pending_events' = pending_events
               /\ gnss_scan_group_queue' = gnss_scan_group_queue
               /\ task_running' = task_running
               /\ seq_active' = seq_active
               /\ pending_error' = "NONE"
               /\ rp_ok => /\ rp_task' = "queued"
                           /\ rp_abort' = FALSE
                           /\ rp_delay_s' = modes[current_mode_index].scan_group_delay]_vars

\* C21 witness: the first scan of the sequence was launched and aborted by
\* the radio planner, and the scan is queued again with the delay of the mode
C21_Witness ==
    /\ seq_active /\ task_running = TRUE
    /\ nb_launch = 1
    /\ gnss_scan_group_queue.scans = <<>>
    /\ emitted = <<>>
    /\ rp_task = "queued"
    /\ rp_delay_s = modes[GNSS_MW_MODE_MOBILE].scan_group_delay

\* number of terminal events sent in the current sequence
TerminalsSent ==
    Cardinality({i \in 1..Len(emitted) : emitted[i] \in TerminalEvents})

\* C22: a sequence sends at most one terminal event, as its last event; it
\* has sent none while it is in progress and exactly one once a launched
\* sequence is not running any more; a terminal event is sent only by a
\* sequence in progress, which then is not running; a sequence that ended
\* with an internal error pending has sent the event of that error, once
\* and with no other event.
C22_OneTerminalEvent ==
    /\ [](/\ TerminalsSent <= 1
          /\ seq_active => TerminalsSent = 0
          /\ (TerminalsSent = 1) => LastEvent \in TerminalEvents
          /\ (~seq_active /\ emitted # <<>>) => TerminalsSent = 1
          /\ (nb_launch > 0 /\ task_running = FALSE) => TerminalsSent = 1
          /\ (nb_launch > 0 /\ task_running = FALSE /\ pending_error # "NONE") =>
                 emitted = <<ErrorEvent(pending_error)>>)
    /\ [][(TagsSent \cap TerminalEvents # {}) =>
              /\ seq_active
              /\ seq_active' = FALSE
              /\ task_running' = FALSE]_vars

\* C22 witness: the driver refused the second scan of a group and the
\* sequence has ended with ERROR_UNKNOWN as its only event
C22_Witness ==
    /\ pending_error = "SCAN_FAILED"
    /\ nb_launch = 2
    /\ Len(gnss_scan_group_queue.scans) = 1
    /\ emitted = <<"ERROR_UNKNOWN">>
    /\ task_running = FALSE
    /\ rp_task = "none"

\* the event sent for a failure of smtc_gnss_get_results()
ResultsErrorEvent(results_rc) ==
    IF results_rc = "ERROR_ALMANAC" THEN "ERROR_ALMANAC_UPDATE"
    ELSE IF results_rc = "ERROR_AIDING_POS" THEN "ERROR_NO_AIDING_POSITION"
    ELSE IF results_rc = "ERROR_NO_TIME" THEN "ERROR_NO_TIME"
    ELSE "ERROR_UNKNOWN"

\* the completion notification ended the sequence with the event, pushed no
\* result and queued no scan
EndsWithError(t, event) ==
    /\ t.emitted = Append(emitted, event)
    /\ t.pending_events = pending_events \cup {event}
    /\ t.gnss_scan_group_queue.scans = gnss_scan_group_queue.scans
    /\ t.gnss_scan_group_queue.token = gnss_scan_group_queue.token
    /\ t.task_running = FALSE
    /\ t.seq_active = FALSE
    /\ t.rp_task = "none"
    /\ t.tx_pending = tx_pending

\* C23: when a scan ends (status scan done) and the results cannot be read,
\* the completion notification sends the event of the failure (almanac:
\* ERROR_ALMANAC_UPDATE, assistance position: ERROR_NO_AIDING_POSITION, time:
\* ERROR_NO_TIME, other: ERROR_UNKNOWN), pushes no result and queues no scan;
\* with a status that is neither aborted nor scan done it sends ERROR_UNKNOWN.
C23_ResultsErrorsMapToEvents ==
    (rp_task = "running" /\ rp_abort = FALSE) =>
        /\ lr11xx.scanning =>
               \A results_rc \in GetResultsRcs \ {"NO_ERROR"},
                  detected_svs \in SvChoices, ok \in BOOLEAN :
                   EndsWithError(
                       gnss_mw_scan_rp_task_done(
                           State, "GNSS_SCAN_DONE", results_rc, detected_svs, ok, ok),
                       ResultsErrorEvent(results_rc))
        /\ \A ok \in BOOLEAN :
               EndsWithError(
                   gnss_mw_scan_rp_task_done(State, "OTHER", "NO_ERROR", 0, ok, ok),
                   "ERROR_UNKNOWN")

\* C23 witness: the results of the second scan of a group could not be read
\* for want of an assistance position, and the sequence has ended on it
C23_Witness ==
    /\ emitted = <<"ERROR_NO_AIDING_POSITION">>
    /\ "ERROR_NO_AIDING_POSITION" \in pending_events
    /\ nb_launch = 2
    /\ Len(gnss_scan_group_queue.scans) = 1
    /\ gnss_scan_group_queue.power_consumption_uah = 2
    /\ pending_error = "NONE"
    /\ task_running = FALSE
    /\ rp_task = "none"

\* C24 (as claimed): a step sends TERMINATED only if the uplinks are
\* bypassed or every result of the group has been handed out for its uplink:
\* with a result still in the queue the sequence does not end, also when the
\* request of an uplink is refused.
C24_TerminatedOnlyWhenDrained ==
    [][("TERMINATED" \in TagsSent) =>
           \/ send_bypass = TRUE
           \/ gnss_scan_group_queue'.nb_scans_sent =
                  Len(gnss_scan_group_queue'.scans)]_vars

\* the context as a launch notification reads it: the position and almanac
\* of the driver, the assistance flag and the selected mode
DriverContext ==
    [almanac_crc |-> lr11xx.almanac_crc,
     aiding_position_latitude |-> lr11xx.aiding_position.latitude,
     aiding_position_longitude |-> lr11xx.aiding_position.longitude,
     assisted |-> aiding_position_received,
     mode |-> current_mode_index]

\* C25 (as claimed): the context is written by the first launch notification
\* of a sequence and by nothing else: later launches of the sequence and the
\* setters of the assistance position leave it as it is.
C25_ContextFrozenAtFirstLaunch ==
    [][(lr11xx_scan_context' # lr11xx_scan_context) =>
           (LaunchStep /\ nb_launch = 0)]_vars

\* C25 (amended): the context is written by every launch notification that
\* gets the time, the first of the sequence or not, with what the driver
\* holds once the pending updates are written, and by nothing else (the
\* setters leave it as it is); the context given with SCAN_DONE is the one of
\* the last launch of the sequence.
C25_ContextOfLastLaunch ==
    /\ [][(lr11xx_scan_context' # lr11xx_scan_context) =>
              (LaunchStep /\ launch_log'[1] = "OK")]_vars
    /\ [][(LaunchStep /\ launch_log'[1] = "OK") =>
              lr11xx_scan_context' = DriverContext']_vars
    /\ []("SCAN_DONE" \in pending_events =>
              gnss_mw_get_event_data_scan_done(State).context =
                  [DriverContext EXCEPT !.assisted = lr11xx.assisted])

\* C25 witness: the second launch of a sequence wrote the user's position
\* to the driver, and SCAN_DONE is pending with the context of that launch
C25_Witness ==
    /\ "SCAN_DONE" \in pending_events
    /\ nb_launch = 2
    /\ launch_log = <<"OK", "user", "scan">>
    /\ Len(gnss_scan_group_queue.scans) = 2
    /\ lr11xx_scan_context.aiding_position_latitude = 48
    /\ lr11xx_scan_context.assisted = TRUE

\* the step pushes a result to the group
PushStep ==
    /\ Len(gnss_scan_group_queue'.scans) = Len(gnss_scan_group_queue.scans) + 1
    /\ SubSeq(gnss_scan_group_queue'.scans, 1, Len(gnss_scan_group_queue.scans))
           = gnss_scan_group_queue.scans

\* C26: the group never holds more results than its capacity; SCAN_DONE is
\* sent by the step that pushes the result filling the group, and by no
\* other; once SCAN_DONE is sent no scan is queued or running, and the
\* results of the group change no more, until a start() makes a new group.
C26_GroupBoundedAndDoneWhenFull ==
    /\ [](Len(gnss_scan_group_queue.scans) <= gnss_scan_group_queue.scan_group_size)
    /\ [][EmitsScanDone <=>
              /\ PushStep
              /\ Len(gnss_scan_group_queue'.scans) =
                     gnss_scan_group_queue'.scan_group_size]_vars
    /\ [](("SCAN_DONE" \in Range(emitted)) => rp_task = "none")
    /\ [][("SCAN_DONE" \in Range(emitted)) =>
              \/ gnss_scan_group_queue'.scans = gnss_scan_group_queue.scans
              \/ StartPastChecksStep /\ gnss_scan_group_queue'.scans = <<>>]_vars

\* C26 witness: a group of 2 results is full, SCAN_DONE was sent and the
\* first result is being sent
C26_Witness ==
    /\ gnss_scan_group_queue.scan_group_size = 2
    /\ Len(gnss_scan_group_queue.scans) = 2
    /\ emitted = <<"SCAN_DONE">>
    /\ rp_task = "none"
    /\ tx_pending = TRUE
    /\ nb_launch = 2

\* C27 (as claimed): while task_running is set something is still to come
\* that can end the sequence: a scan task queued or running in the radio
\* planner, or an uplink waiting for its tx-done callback.
C27_RunningHasContinuation ==
    task_running = TRUE => (rp_task # "none" \/ tx_pending = TRUE)

\* C28: while an uplink waits for its tx-done callback the sequence is
\* running, start() returns BUSY and leaves the group queue alone, and no
\* step changes the results of the group; TERMINATED is never sent by a step
\* that leaves an uplink waiting for its callback.
C28_NoStartWhileUplinkInFlight ==
    /\ [](tx_pending = TRUE =>
              /\ task_running = TRUE
              /\ nb_tx_req > nb_tx_done
              /\ app_pc = "idle" =>
                     \A mode \in ValidModes, start_delay \in StartDelays,
                        rp_ok \in BOOLEAN :
                         LET r == gnss_mw_scan_start(State, mode, start_delay, rp_ok)
                         IN  /\ r.rc = "BUSY"
                             /\ r.s.gnss_scan_group_queue = gnss_scan_group_queue)
    /\ [][tx_pending = TRUE =>
              gnss_scan_group_queue'.scans = gnss_scan_group_queue.scans]_vars
    /\ [][("TERMINATED" \in TagsSent) => tx_pending' = FALSE]_vars

\* C28 witness: the first result of a group of 2 was sent and the uplink of
\* the second is in flight; start() is refused
C28_Witness ==
    /\ app_pc = "idle"
    /\ tx_pending = TRUE
    /\ nb_tx_done = 1
    /\ gnss_scan_group_queue.nb_scans_sent = 2
    /\ emitted = <<"SCAN_DONE">>
    /\ gnss_mw_scan_start(State, GNSS_MW_MODE_MOBILE, 5, TRUE).rc = "BUSY"

\* C29 (as claimed): with the launch notification coming between any two
\* writes of gnss_mw_set_user_aiding_position(), the position held by the
\* driver is none or the pair given to one call of the setter, never the
\* latitude of one call with the longitude of another; and the pending flag
\* of a stored update is cleared only by a launch that writes that update.
C29_AppliedPositionFromOneCall ==
    /\ [](lr11xx.aiding_position \in UserPositionsTwo \cup {NoPosition})
    /\ [][(user_aiding_position_update_received
               /\ ~user_aiding_position_update_received') =>
              /\ LaunchStep
              /\ lr11xx'.aiding_position = user_aiding_position_update]_vars

\* the group of the sequence was made for an autonomous scan
GroupAutonomous ==
    /\ gnss_scan_group_queue.scan_group_size = 1
    /\ gnss_scan_group_queue.scan_group_sv_min = GNSS_SCAN_SINGLE_NAV_MIN_SV

\* C30 (as claimed): while a scan of the sequence is in progress, it was
\* started as an assisted scan, and the context says assisted, if and only
\* if the group of the sequence was made with the capacity and threshold of
\* the mode (not 1 scan with the single scan threshold), also when a setter
\* of the assistance position was called between start() and the launch.
C30_ScansAgreeWithGroup ==
    (seq_active /\ lr11xx.scanning) =>
        /\ lr11xx.assisted = ~GroupAutonomous
        /\ lr11xx_scan_context.assisted = ~GroupAutonomous
\* the sequence in progress has had no cancel() past its check since the
\* start() that was accepted for it
NeverCancelledSequence == seq_active /\ ~cancel_called

\* C31: an accepted start() leaves the cancel flag clear, whatever a cancel()
\* made while Idle had set; in a sequence with no cancel() since its accepted
\* start() the flag is clear and SCAN_CANCELLED is never sent; and in such a
\* sequence a completion notification with status aborted and no pending
\* error sends no event, keeps the sequence running and asks the radio planner
\* for the next scan after the scan_group_delay of the selected mode.
C31_IdleCancelHasNoEffect ==
    /\ [](NeverCancelledSequence =>
              /\ task_cancelled_by_user = FALSE
              /\ "SCAN_CANCELLED" \notin Range(emitted))
    /\ [][/\ AcceptedStartStep => task_cancelled_by_user' = FALSE
          /\ \A rp_ok \in BOOLEAN :
               (/\ NeverCancelledSequence
                /\ pending_error = "NONE"
                /\ AbortedStep(rp_ok))
               => /\ emitted' = emitted
                  /\ pending_events' = pending_events
                  /\ seq_active' /\ task_running' = task_running
                  /\ rp_ok => /\ rp_task' = "queued"
                              /\ rp_delay_s' =
                                   modes[current_mode_index].scan_group_delay]_vars

\* a cancel() was made while Idle, before any sequence: the flag is set, no
\* task is queued, and the start() that is accepted next clears the flag
C31_Witness ==
    /\ ~seq_active /\ nb_launch = 0 /\ emitted = <<>>
    /\ rp_task = "none" /\ app_pc = "idle"
    /\ task_cancelled_by_user = TRUE /\ cancel_called
    /\ \E mode \in ValidModes, start_delay \in StartDelays :
           LET r == gnss_mw_scan_start(State, mode, start_delay, TRUE)
           IN  /\ r.rc = "OK"
               /\ r.s.task_cancelled_by_user = FALSE
               /\ r.s.rp_task = "queued"
====
